---- MODULE Spec2Model ----
(***************************************************************************)
(* Model of the seeded random number generators of                         *)
(* @opensourceframework/seeded-rng (src/unnamed/part_004):                 *)
(*   SeededRNG        - linear congruential generator                      *)
(*   SecureSeededRNG  - ISAAC-style block generator                        *)
(*                                                                         *)
(* JavaScript numbers are modelled by their exact values.  A 32-bit word   *)
(* is the signed integer ToInt32 gives (-2^31 .. 2^31-1); inside the word  *)
(* operators it is split into two 16-bit halves <<hi, lo>>.  An integer    *)
(* that may not fit 32 bits (a seed, an unsigned word, a product) is a     *)
(* sign and a magnitude in base 2^15.  A fraction (a result of next(),     *)
(* nextFloat(), a probability) is a numerator over a divisor given by      *)
(* its small factors.  The multiplication of isaacSeed, where the source's *)
(* double arithmetic rounds, is modelled with its rounding; the products   *)
(* and quotients of the derived operations (nextInt, nextFloat, ...) are   *)
(* exact, which agrees with the doubles for the argument ranges used       *)
(* here; -0 and 0 are not told apart.                                      *)
(***************************************************************************)
EXTENDS Integers, Sequences, FiniteSets, TLC

\* ------------------------------------------------------------------------
\* The halves <<hi, lo>> of a word: hi * 65536 + lo, 0 <= lo < 65536
\* ------------------------------------------------------------------------

\* 2^16
B16 == 256 * 256

\* The halves of an integer that fits the model checker's integers
W(i) == << i \div B16, i % B16 >>

WNorm(hi, lo) == << hi + (lo \div B16), lo % B16 >>

WAdd(a, b) == WNorm(a[1] + b[1], a[2] + b[2])

WNeg(a) == WNorm(-a[1], -a[2])

WSub(a, b) == WAdd(a, WNeg(b))

\* ------------------------------------------------------------------------
\* 32-bit words: JavaScript's ToInt32, ToUint32 and bitwise operators
\* ------------------------------------------------------------------------

\* The halves of the unsigned 32-bit word of the integer with halves w
ToUint32(w) == << w[1] % B16, w[2] >>

\* The signed 32-bit word of the integer with halves w
ToInt32(w) ==
  LET hi == w[1] % B16
  IN  IF hi >= 32768 THEN (hi - B16) * B16 + w[2] ELSE hi * B16 + w[2]

\* (a + b) | 0 for two 32-bit words
Add32(a, b) == ToInt32(WAdd(W(a), W(b)))

\* XOR of the low n bits of a and b
RECURSIVE XorBits(_, _, _)
XorBits(a, b, n) ==
  IF n = 0 THEN 0
  ELSE ((a + b) % 2) + 2 * XorBits(a \div 2, b \div 2, n - 1)

\* XOR of two 4-bit digits, tabulated
XorNibble == [a \in 0..15 |-> [b \in 0..15 |-> XorBits(a, b, 4)]]

\* XOR of the low n 4-bit digits of a and b
RECURSIVE XorDigits(_, _, _)
XorDigits(a, b, n) ==
  IF n = 0 THEN 0
  ELSE XorNibble[a % 16][b % 16] + 16 * XorDigits(a \div 16, b \div 16, n - 1)

\* XOR of two unsigned words in halves
XorHalves(ua, ub) == << XorDigits(ua[1], ub[1], 4), XorDigits(ua[2], ub[2], 4) >>

\* a ^ b of two 32-bit words (the result is a signed 32-bit word)
Xor32(a, b) == ToInt32(XorHalves(ToUint32(W(a)), ToUint32(W(b))))

Pow2(k) == 2 ^ k

\* The unsigned word u (in halves) shifted left by 0 < k < 16 bits
ShlHalves(u, k) ==
  << (u[1] * Pow2(k) + (u[2] * Pow2(k)) \div B16) % B16, (u[2] * Pow2(k)) % B16 >>

\* a << k for 0 < k < 16 (the result is a signed 32-bit word)
Shl32(a, k) == ToInt32(ShlHalves(ToUint32(W(a)), k))

\* The unsigned word u (in halves) shifted right by 0 < k <= 16 bits
ShrHalves(u, k) ==
  IF k = 16 THEN u[1]
  ELSE (u[1] \div Pow2(k)) * B16
       + (u[1] % Pow2(k)) * Pow2(16 - k) + u[2] \div Pow2(k)

\* a >>> k for 0 < k <= 16 (the result is below 2^31)
Shr32(a, k) == ShrHalves(ToUint32(W(a)), k)

\* ------------------------------------------------------------------------
\* JavaScript integers of any size: [neg, mag], mag the digits in base 2^15,
\* low digit first, no leading zero digit; zero is [neg |-> FALSE, mag |-> <<>>]
\* ------------------------------------------------------------------------

\* 2^15
LB == 128 * 256

Digit(a, i) == IF i <= Len(a) THEN a[i] ELSE 0

MaxLen(a, b) == IF Len(a) >= Len(b) THEN Len(a) ELSE Len(b)

RECURSIVE MagTrim(_)
MagTrim(m) ==
  IF m = << >> THEN << >>
  ELSE IF m[Len(m)] = 0 THEN MagTrim(SubSeq(m, 1, Len(m) - 1))
  ELSE m

RECURSIVE MagAddFrom(_, _, _, _)
MagAddFrom(a, b, i, carry) ==
  IF i > MaxLen(a, b) THEN << carry >>
  ELSE LET t == Digit(a, i) + Digit(b, i) + carry
       IN  << t % LB >> \o MagAddFrom(a, b, i + 1, t \div LB)

MagAdd(a, b) == MagTrim(MagAddFrom(a, b, 1, 0))

\* a - b for a >= b
RECURSIVE MagSubFrom(_, _, _, _)
MagSubFrom(a, b, i, borrow) ==
  IF i > Len(a) THEN << >>
  ELSE LET t == Digit(a, i) - Digit(b, i) - borrow
       IN  << t % LB >> \o MagSubFrom(a, b, i + 1, IF t < 0 THEN 1 ELSE 0)

MagSub(a, b) == MagTrim(MagSubFrom(a, b, 1, 0))

RECURSIVE MagLessFrom(_, _, _)
MagLessFrom(a, b, i) ==
  IF i = 0 THEN FALSE
  ELSE IF a[i] # b[i] THEN a[i] < b[i]
  ELSE MagLessFrom(a, b, i - 1)

MagLess(a, b) ==
  Len(a) < Len(b) \/ (Len(a) = Len(b) /\ MagLessFrom(a, b, Len(a)))

\* a * k for one digit k
RECURSIVE MagMulDigitFrom(_, _, _, _)
MagMulDigitFrom(a, k, i, carry) ==
  IF i > Len(a) THEN << carry >>
  ELSE LET t == a[i] * k + carry
       IN  << t % LB >> \o MagMulDigitFrom(a, k, i + 1, t \div LB)

MagMulDigit(a, k) == MagTrim(MagMulDigitFrom(a, k, 1, 0))

RECURSIVE MagMulFrom(_, _, _)
MagMulFrom(a, b, j) ==
  IF j > Len(b) THEN << >>
  ELSE MagAdd(MagMulDigit(a, b[j]),
              MagTrim(<< 0 >> \o MagMulFrom(a, b, j + 1)))

MagMul(a, b) == MagMulFrom(a, b, 1)

\* Quotient and remainder of a by one digit c > 0, from digit i down
RECURSIVE MagDivFrom(_, _, _, _)
MagDivFrom(a, c, i, r) ==
  IF i = 0 THEN [q |-> << >>, r |-> r]
  ELSE LET t    == r * LB + a[i]
           rest == MagDivFrom(a, c, i - 1, t % c)
       IN  [q |-> rest.q \o << t \div c >>, r |-> rest.r]

MagDiv(a, c) ==
  LET d == MagDivFrom(a, c, Len(a), 0)
  IN  [q |-> MagTrim(d.q), r |-> d.r]

BMk(neg, mag) == [neg |-> neg /\ mag # << >>, mag |-> mag]

\* The integer i, -2^31 < i < 2^31
BInt(i) ==
  LET a == IF i < 0 THEN -i ELSE i
  IN  BMk(i < 0, MagTrim(<< a % LB, (a \div LB) % LB, a \div (LB * LB) >>))

BZero == BInt(0)

BNeg(x) == BMk(~x.neg, x.mag)

BAdd(x, y) ==
  IF x.neg = y.neg THEN BMk(x.neg, MagAdd(x.mag, y.mag))
  ELSE IF MagLess(x.mag, y.mag) THEN BMk(y.neg, MagSub(y.mag, x.mag))
  ELSE BMk(x.neg, MagSub(x.mag, y.mag))

BSub(x, y) == BAdd(x, BNeg(y))

BMul(x, y) == BMk(x.neg # y.neg, MagMul(x.mag, y.mag))

BLess(x, y) ==
  IF x.neg # y.neg THEN x.neg
  ELSE IF x.neg THEN MagLess(y.mag, x.mag)
  ELSE MagLess(x.mag, y.mag)

BLeq(x, y) == x = y \/ BLess(x, y)

\* Math.floor(x / c) for one digit c > 0
BFloorDiv(x, c) ==
  LET d == MagDiv(x.mag, c)
  IN  IF x.neg /\ d.r # 0 THEN BMk(TRUE, MagAdd(d.q, << 1 >>))
      ELSE BMk(x.neg, d.q)

\* Math.floor(x / (f[1] * ... * f[n])) for a divisor given by its factors
RECURSIVE BFloorDivAll(_, _, _)
BFloorDivAll(x, f, i) ==
  IF i > Len(f) THEN x ELSE BFloorDivAll(BFloorDiv(x, f[i]), f, i + 1)

\* x * f[1] * ... * f[n]
RECURSIVE BMulAll(_, _, _)
BMulAll(x, f, i) ==
  IF i > Len(f) THEN x ELSE BMulAll(BMul(x, BInt(f[i])), f, i + 1)

\* The value of x as an integer of the model checker, |x| < 2^30
BToInt(x) ==
  LET a == Digit(x.mag, 1) + LB * Digit(x.mag, 2)
  IN  IF x.neg THEN -a ELSE a

\* ToUint32(x) in halves: x mod 2^32
BToUint32(x) ==
  LET low30 == Digit(x.mag, 1) + LB * Digit(x.mag, 2)
      u     == << (Digit(x.mag, 3) % 4) * 16384 + low30 \div B16, low30 % B16 >>
  IN  IF x.neg THEN ToUint32(WNeg(u)) ELSE u

\* ToInt32(x): the signed 32-bit word of x
BToInt32(x) == ToInt32(BToUint32(x))

\* The integer of an unsigned 32-bit word in halves
BFromUint32(u) ==
  BMk(FALSE, MagTrim(<< u[2] % LB,
                        u[2] \div LB + (u[1] % 16384) * 2,
                        u[1] \div 16384 >>))

\* ------------------------------------------------------------------------
\* The one rounding multiplication: (x * 0x9e3779b9) | 0 in double precision
\* ------------------------------------------------------------------------

\* GOLDEN_RATIO = 0x9e3779b9 in halves, and its bytes (low first)
GOLDEN_RATIO == << 40503, 31161 >>

GoldenBytes == << 185, 121, 55, 158 >>

\* The four bytes (low first) of an unsigned word in halves
Bytes4(w) == << w[2] % 256, w[2] \div 256, w[1] % 256, w[1] \div 256 >>

\* Column k (0..6) of the schoolbook product of two 4-byte numbers
MulColumn(a, b, k) ==
  LET term(i) == IF k - i >= 0 /\ k - i <= 3 THEN a[i + 1] * b[k - i + 1] ELSE 0
  IN  term(0) + term(1) + term(2) + term(3)

\* The eight bytes (low first) of the exact product a * b
RECURSIVE MulBytes(_, _, _, _)
MulBytes(a, b, k, carry) ==
  IF k = 7 THEN << carry >>
  ELSE LET t == MulColumn(a, b, k) + carry
       IN  << t % 256 >> \o MulBytes(a, b, k + 1, t \div 256)

\* Number of significant bits of a byte
RECURSIVE BitLen8(_)
BitLen8(x) == IF x = 0 THEN 0 ELSE 1 + BitLen8(x \div 2)

\* Number of significant bits of a number given by its bytes (low first)
RECURSIVE BitLen(_, _)
BitLen(p, k) ==
  IF k = 0 THEN 0
  ELSE IF p[k] # 0 THEN 8 * (k - 1) + BitLen8(p[k])
  ELSE BitLen(p, k - 1)

\* The low 32 bits (in halves) of the double nearest to the integer with bytes
\* p: exact up to 53 significant bits, beyond that the low bits are rounded
\* away, to nearest, ties to even.
RoundLow(low, d) ==
  IF d <= 0 THEN low
  ELSE LET r    == low[2] % Pow2(d)
           half == Pow2(d - 1)
           odd  == (low[2] \div Pow2(d)) % 2 = 1
           up   == r > half \/ (r = half /\ odd)
       IN  ToUint32(WAdd(WSub(low, W(r)), IF up THEN W(Pow2(d)) ELSE W(0)))

RoundDoubleLow32(p) ==
  RoundLow(<< p[4] * 256 + p[3], p[2] * 256 + p[1] >>, BitLen(p, 8) - 53)

\* The halves of |x| for a signed 32-bit word x
AbsHalves(x) == IF x < 0 THEN WNeg(W(x)) ELSE W(x)

\* The halves w, negated when neg
WithSign(neg, w) == IF neg THEN WNeg(w) ELSE w

\* (x * GOLDEN_RATIO) | 0, x a signed 32-bit word: the product is formed as
\* a double, which keeps 53 significant bits, and then reduced by ToInt32.
MulGolden(x) ==
  ToInt32(WithSign(x < 0,
    RoundDoubleLow32(MulBytes(Bytes4(AbsHalves(x)), GoldenBytes, 0, 0))))

\* ------------------------------------------------------------------------
\* Inputs of the model
\* ------------------------------------------------------------------------

\* 4294967295
MaxUint32 == BFromUint32(<< B16 - 1, B16 - 1 >>)

\* The seed from which the first next() of SeededRNG is 0:
\* (22643 * 9301 + 49297) % 233280 = 0
ZeroDrawSeed == BInt(22643)

\* The seed of SeededRNG that its own first nextInt(0, 2147483647) gives:
\* (48697653 * 9301 + 49297) % 233280 = 5290 and
\* Math.floor(5290 / 233280 * 2147483648) = 48697653
FixedSeed == BInt(48697653)

\* Seeds given to the constructors: zero, small, negative, above the LCG
\* modulus, the largest 32-bit seed, and the two seeds above
Seeds == { BInt(0), BInt(42), BInt(-6), BInt(300000), MaxUint32,
           ZeroDrawSeed, FixedSeed }

\* Seeds given to the constructor of SecureSeededRNG, whose seeding is
\* costly to evaluate: a negative one and the largest 32-bit seed
SecureSeeds == { BInt(-6), MaxUint32 }

\* Seeds given to setSeed
SetSeeds == { BInt(42), BInt(12345) }

TableSeeds == SecureSeeds \cup SetSeeds

\* ------------------------------------------------------------------------
\* SecureSeededRNG: the ISAAC state
\* ------------------------------------------------------------------------

\* Number of words in randRsl
RSL == 256

\* The switch of isaac() for slot i (0-based): what randA is XORed with
isaacShift(a, i) ==
  CASE i % 4 = 0 -> Shl32(a, 13)
    [] i % 4 = 1 -> Shr32(a, 6)
    [] i % 4 = 2 -> Shl32(a, 2)
    [] OTHER     -> Shr32(a, 16)

\* The rest of the loop body of isaac() for slot i, once randA is updated
\* and y is computed: y is stored, and randB is updated from the slot that
\* y selects in the buffer as it then is
isaacStore(st, i, y) ==
  [st EXCEPT !.randRsl[i + 1] = y,
             !.randB = Add32(Add32(IF Shr32(y, 2) % RSL = i THEN y
                                   ELSE st.randRsl[(Shr32(y, 2) % RSL) + 1],
                                   st.randA), st.randB)]

\* The loop body of isaac() for slot i after its switch
isaacMix(st, i) ==
  isaacStore(st, i,
    Add32(Add32(st.randRsl[((i + 128) % RSL) + 1], st.randA), st.randB))

\* One slot of isaac(): the body of its loop for slot i (0-based)
isaacSlot(st, i) ==
  isaacMix([st EXCEPT !.randA = Xor32(st.randA, isaacShift(st.randA, i))], i)

\* The loop of isaac() over slots lo .. hi-1, in order (halved, so that the
\* evaluation does not nest once per slot)
RECURSIVE isaacLoop(_, _, _)
isaacLoop(st, lo, hi) ==
  IF hi - lo = 1 THEN isaacSlot(st, lo)
  ELSE LET mid  == (lo + hi) \div 2
           left == isaacLoop(st, lo, mid)
       IN  IF left.randA \in Int THEN isaacLoop(left, mid, hi) ELSE left

\* isaac(): one mix round over the whole buffer
isaac(st) ==
  isaacLoop([st EXCEPT !.randB = Add32(st.randB, Add32(st.randC, 1)),
                       !.randC = Add32(st.randC, 1)], 0, RSL)

\* The seed expansion of isaacSeed: the n words that follow mix, each
\* (mix ^ (mix >>> 16)) * GOLDEN_RATIO | 0 of the one before
RECURSIVE seedArray(_, _)
seedArray(mix, n) ==
  IF n = 1 THEN << MulGolden(Xor32(mix, Shr32(mix, 16))) >>
  ELSE LET left == seedArray(mix, n \div 2)
       IN  left \o seedArray(left[Len(left)], n - n \div 2)

\* The ISAAC fields isaacSeed(seed) leaves: the expanded seed, the three
\* accumulators and the counter, after the warm-up round
isaacSeedWord(s32) ==
  isaac([randA |-> s32,
         randB |-> Xor32(s32, ToInt32(GOLDEN_RATIO)),
         randC |-> Xor32(s32, ToInt32(GOLDEN_RATIO)),
         randRsl |-> seedArray(s32, RSL),
         randCnt |-> RSL])

isaacSeedFields(seed) == isaacSeedWord(BToInt32(seed))

\* isaacSeedFields, evaluated once for the seeds the model passes explicitly
IsaacTable == [s \in TableSeeds |-> isaacSeedFields(s)]

\* A defective isaacSeed, which leaves the cursor where it is
isaacAssignKeepingCursor(st, f) ==
  [st EXCEPT !.randA = f.randA, !.randB = f.randB, !.randC = f.randC,
             !.randRsl = f.randRsl]

\* The object st with its ISAAC fields overwritten by f
isaacAssign(st, f) ==
  [st EXCEPT !.randA = f.randA, !.randB = f.randB, !.randC = f.randC,
             !.randRsl = f.randRsl, !.randCnt = f.randCnt]

\* isaacSeed(seed) on the object st: every ISAAC field is overwritten
isaacSeed(st, seed) ==
  isaacAssign(st, IF seed \in DOMAIN IsaacTable THEN IsaacTable[seed]
                  ELSE isaacSeedFields(seed))

\* A defective end of rand(), which takes the words of a batch from slot 0
\* upwards
randTakeAscending(st) ==
  [g   |-> [st EXCEPT !.randCnt = st.randCnt - 1,
                      !.iterations = st.iterations + 1],
   ret |-> st.randRsl[RSL - st.randCnt + 1]]

\* The end of rand(): the counters move and the word under the cursor is
\* returned
randTake(st) ==
  [g   |-> [st EXCEPT !.randCnt = st.randCnt - 1,
                      !.iterations = st.iterations + 1],
   ret |-> st.randRsl[st.randCnt]]

\* A defective rand(), which counts the mix round of an empty buffer as a
\* draw
randCountingMix(st) ==
  randTake(IF st.randCnt = 0
           THEN [isaac(st) EXCEPT !.randCnt = RSL, !.iterations = @ + 1]
           ELSE st)

\* rand(): the next 32-bit word
rand(st) ==
  randTake(IF st.randCnt = 0 THEN [isaac(st) EXCEPT !.randCnt = RSL] ELSE st)

\* ------------------------------------------------------------------------
\* Values: fractions, optional arguments, arrays
\* ------------------------------------------------------------------------

\* A fraction is [num, den]: the integer num over the product of the factors den
Frac(n, d) == [num |-> n, den |-> d]

\* a < b and a <= b for fractions (all divisors are positive)
FracLess(a, b) == BLess(BMulAll(a.num, b.den, 1), BMulAll(b.num, a.den, 1))

FracLeq(a, b) == ~FracLess(b, a)

\* The fraction of an integer
FracInt(x) == Frac(x, << >>)

\* Math.floor(v * n) for a fraction v and an integer n
FloorMul(v, n) == BFloorDivAll(BMul(v.num, n), v.den, 1)

\* v * n + c for a fraction v and integers n, c
MulAdd(v, n, c) == Frac(BAdd(BMul(v.num, n), BMulAll(c, v.den, 1)), v.den)

\* undefined, as an array element or a result
Undefined == "undefined"

\* array[j] for a JavaScript array with elements elems and the stray
\* properties extra (negative keys that were assigned)
At(elems, extra, j) ==
  IF ~j.neg /\ BLess(j, BInt(Len(elems))) THEN elems[BToInt(j) + 1]
  ELSE IF j \in DOMAIN extra THEN extra[j]
  ELSE Undefined

\* ------------------------------------------------------------------------
\* SeededRNG (linear congruential generator)
\* ------------------------------------------------------------------------

A == 9301

C == 49297

M == 233280

\* M by its factors: 64 * 3645
MFactors == << 64, 3645 >>

\* The remainder r of the floored division of x by M, made the remainder
\* of the truncated division
RemSign(x, r) == IF x.neg /\ r # BZero THEN BSub(r, BInt(M)) ELSE r

\* x % M as JavaScript computes it: the remainder has the sign of x
RemM(x) ==
  RemSign(x, BSub(x, BMulAll(BFloorDivAll(x, MFactors, 1), MFactors, 1)))

\* 2147483647
MaxInt31 == BInt(2147483647)

\* What the derived operations make of a draw r = [g, ret] of next(): the
\* generator is the one the draw left, the value is computed from the
\* value drawn.

\* Math.floor(next() * (max - min + 1)) + min
IntInRange(r, min, max) ==
  [g |-> r.g, ret |-> BAdd(FloorMul(r.ret, BAdd(BSub(max, min), BInt(1))), min)]

\* next() * (max - min) + min
FloatInRange(r, min, max) == [g |-> r.g, ret |-> MulAdd(r.ret, BSub(max, min), min)]

\* next() < probability
Below(r, probability) == [g |-> r.g, ret |-> FracLess(r.ret, probability)]

\* array[j] for the index j = r.ret drawn by nextInt
Element(r, array) == [g |-> r.g, ret |-> At(array, << >>, r.ret)]

\* chance(0.5) ? 1 : -1 for the result r of chance
Sign(r) == [g |-> r.g, ret |-> IF r.ret THEN 1 ELSE -1]

\* A generator whose seed and initial seed are s
SeededFields(s) == [seed |-> s, initialSeed |-> s, iterations |-> 0]

\* new SeededRNG(seed): seed is << >> (none) or << s >>; env.random is the
\* fraction Math.random() gives
SeededRNG(seed, env) ==
  SeededFields(IF seed = << >> THEN FloorMul(env.random, MaxInt31) ELSE seed[1])

\* A defective setSeed, which moves the initial seed as well
SeededRNG_setSeedAndInitial(g, seed) ==
  [g |-> [g EXCEPT !.seed = seed, !.initialSeed = seed], ret |-> Undefined]

SeededRNG_setSeed(g, seed) == [g |-> [g EXCEPT !.seed = seed], ret |-> Undefined]

SeededRNG_reset(g) ==
  [g |-> [g EXCEPT !.seed = g.initialSeed, !.iterations = 0], ret |-> Undefined]

\* The RNGStats object of getStats(), for either class
Stats(g) ==
  [initialSeed |-> g.initialSeed, currentSeed |-> g.seed,
   iterations |-> g.iterations]

SeededRNG_getInitialSeed(g) == [g |-> g, ret |-> g.initialSeed]

SeededRNG_getStats(g) == [g |-> g, ret |-> Stats(g)]

\* The end of next(): the new seed s is stored and returned over M
SeededRNG_nextStore(g, s) ==
  [g |-> [g EXCEPT !.seed = s, !.iterations = g.iterations + 1],
   ret |-> Frac(s, MFactors)]

\* A defective next(), without the increment C
SeededRNG_nextWithoutIncrement(g) ==
  SeededRNG_nextStore(g, RemM(BMul(g.seed, BInt(A))))

SeededRNG_next(g) ==
  SeededRNG_nextStore(g, RemM(BAdd(BMul(g.seed, BInt(A)), BInt(C))))

SeededRNG_nextInt(g, min, max) == IntInRange(SeededRNG_next(g), min, max)

SeededRNG_nextFloat(g, min, max) == FloatInRange(SeededRNG_next(g), min, max)

SeededRNG_chance(g, probability) == Below(SeededRNG_next(g), probability)

SeededRNG_pick(g, array) ==
  IF Len(array) = 0 THEN [g |-> g, ret |-> Undefined]
  ELSE Element(SeededRNG_nextInt(g, BZero, BInt(Len(array) - 1)), array)

\* result[j] = temp of shuffle: inside the array the element is replaced,
\* outside it the assignment makes the property j
ShuffleAssign(g, elems, extra, j, temp) ==
  IF ~j.neg /\ BLess(j, BInt(Len(elems)))
  THEN [g |-> g, elems |-> [elems EXCEPT ![BToInt(j) + 1] = temp], extra |-> extra]
  ELSE [g |-> g, elems |-> elems,
        extra |-> [k \in DOMAIN extra \cup {j} |-> IF k = j THEN temp ELSE extra[k]]]

\* One round of the loop of shuffle, i 0-based, with the draw r = [g, ret]:
\* result[i] and result[j] are swapped
ShuffleSwap(st, r, i) ==
  ShuffleAssign(r.g, [st.elems EXCEPT ![i + 1] = At(st.elems, st.extra, r.ret)],
                st.extra, r.ret, st.elems[i + 1])

RECURSIVE SeededRNG_shuffleLoop(_, _)
SeededRNG_shuffleLoop(st, i) ==
  IF i <= 0 THEN st
  ELSE SeededRNG_shuffleLoop(
         ShuffleSwap(st, SeededRNG_nextInt(st.g, BZero, BInt(i)), i), i - 1)

\* The generator and the array a shuffle loop leaves, as a result
ShuffleResult(st) == [g |-> st.g, ret |-> st.elems]

SeededRNG_shuffle(g, array) ==
  ShuffleResult(SeededRNG_shuffleLoop(
    [g |-> g, elems |-> array, extra |-> << >>], Len(array) - 1))

\* The sum of the weights of items
RECURSIVE TotalWeight(_, _)
TotalWeight(items, i) ==
  IF i > Len(items) THEN BZero
  ELSE BAdd(BInt(items[i].weight), TotalWeight(items, i + 1))

\* A defective walk, which tests what is left of random before it subtracts
\* the weight of item i
RECURSIVE WeightedWalkTestFirst(_, _, _)
WeightedWalkTestFirst(items, random, i) ==
  IF i > Len(items) THEN items[Len(items)].item
  ELSE IF FracLeq(random, FracInt(BZero)) THEN items[i].item
  ELSE WeightedWalkTestFirst(
         items, MulAdd(random, BInt(1), BNeg(BInt(items[i].weight))), i + 1)

\* The walk of weightedPick: WeightedWalk subtracts the weight of item i
\* from random, WeightedTest returns the item when nothing is left
RECURSIVE WeightedWalk(_, _, _)
RECURSIVE WeightedTest(_, _, _)
WeightedWalk(items, random, i) ==
  IF i > Len(items) THEN items[Len(items)].item
  ELSE WeightedTest(items, MulAdd(random, BInt(1), BNeg(BInt(items[i].weight))), i)

WeightedTest(items, random, i) ==
  IF FracLeq(random, FracInt(BZero)) THEN items[i].item
  ELSE WeightedWalk(items, random, i + 1)

\* The item weightedPick returns for the draw r of next()
WeightedItem(r, items) ==
  [g |-> r.g,
   ret |-> WeightedWalk(items, MulAdd(r.ret, TotalWeight(items, 1), BZero), 1)]

SeededRNG_weightedPick(g, items) ==
  IF Len(items) = 0 THEN [g |-> g, ret |-> Undefined]
  ELSE WeightedItem(SeededRNG_next(g), items)

SeededRNG_nextBool(g, probability) == SeededRNG_chance(g, probability)

SeededRNG_nextSign(g) == Sign(SeededRNG_chance(g, Frac(BInt(1), << 2 >>)))

\* A defective fork(), which draws the seed of the child with nextInt(0, 0)
SeededRNG_forkUnscaled(g, env) ==
  [g |-> SeededRNG_nextInt(g, BZero, BZero).g,
   ret |-> SeededRNG(<< SeededRNG_nextInt(g, BZero, BZero).ret >>, env)]

\* new SeededRNG(s) for the seed s = r.ret drawn by nextInt
SeededRNG_forkChild(r, env) == [g |-> r.g, ret |-> SeededRNG(<< r.ret >>, env)]

SeededRNG_fork(g, env) ==
  SeededRNG_forkChild(SeededRNG_nextInt(g, BZero, MaxInt31), env)

\* ------------------------------------------------------------------------
\* SecureSeededRNG (ISAAC)
\* ------------------------------------------------------------------------

\* 2^32 by its factors
Two32 == << LB, LB, 4 >>

\* The seed an unseeded SecureSeededRNG takes from its environment env:
\* env.random is the fraction Math.random() gives; env.crypto is "absent"
\* without crypto.getRandomValues (the Uint32Array keeps its 0), "throws"
\* when the call throws, "value" when it fills the array with env.value
SecureRandomSeed(env) ==
  CASE env.crypto = "absent" -> BZero
    [] env.crypto = "throws" -> FloorMul(env.random, BAdd(MaxUint32, BInt(1)))
    [] OTHER -> env.value

\* A generator whose seed and initial seed are s, before isaacSeed(s)
SecureFields(s) ==
  isaacSeed([seed |-> s, initialSeed |-> s, iterations |-> 0,
             randRsl |-> [i \in 1..RSL |-> Undefined], randCnt |-> RSL,
             randA |-> 0, randB |-> 0, randC |-> 0], s)

\* new SecureSeededRNG(seed): seed is << >> (none) or << s >>
SecureSeededRNG(seed, env) ==
  SecureFields(IF seed = << >> THEN SecureRandomSeed(env) ELSE seed[1])

\* A defective setSeed, which stores the seed but does not re-seed the buffer
SecureSeededRNG_setSeedWithoutIsaacSeed(g, seed) ==
  [g |-> [g EXCEPT !.seed = seed], ret |-> Undefined]

SecureSeededRNG_setSeed(g, seed) ==
  [g |-> isaacSeed([g EXCEPT !.seed = seed], seed), ret |-> Undefined]

SecureSeededRNG_getInitialSeed(g) == [g |-> g, ret |-> g.initialSeed]

SecureSeededRNG_getStats(g) == [g |-> g, ret |-> Stats(g)]

\* A defective reset(), which restores the seed and the counter but does not
\* re-seed the buffer
SecureSeededRNG_resetWithoutIsaacSeed(g) ==
  [g |-> [g EXCEPT !.seed = g.initialSeed, !.iterations = 0], ret |-> Undefined]

SecureSeededRNG_reset(g) ==
  [g |-> isaacSeed([g EXCEPT !.seed = g.initialSeed, !.iterations = 0],
                   g.initialSeed),
   ret |-> Undefined]

\* A defective next(), which divides the signed word: without the >>> 0
\* (SignedOverTwo32 is w / 4294967296 for the word w = r.ret)
SignedOverTwo32(r) ==
  [g |-> r.g,
   ret |-> Frac(BSub(BFromUint32(ToUint32(W(r.ret))),
                     IF r.ret < 0 THEN BAdd(MaxUint32, BInt(1)) ELSE BZero),
                Two32)]

SecureSeededRNG_nextSigned(g) == SignedOverTwo32(rand(g))

\* (w >>> 0) / 4294967296 for the word w = r.ret that rand() returned
UnsignedOverTwo32(r) ==
  [g |-> r.g, ret |-> Frac(BFromUint32(ToUint32(W(r.ret))), Two32)]

\* A defective next(), which keeps the word drawn as the current seed
SecureSeededRNG_nextMovingSeed(g) ==
  UnsignedOverTwo32(
    [g |-> [rand(g).g EXCEPT !.seed = BFromUint32(ToUint32(W(rand(g).ret)))],
     ret |-> rand(g).ret])

SecureSeededRNG_next(g) == UnsignedOverTwo32(rand(g))

SecureSeededRNG_nextInt(g, min, max) ==
  IntInRange(SecureSeededRNG_next(g), min, max)

SecureSeededRNG_nextFloat(g, min, max) ==
  FloatInRange(SecureSeededRNG_next(g), min, max)

SecureSeededRNG_chance(g, probability) ==
  Below(SecureSeededRNG_next(g), probability)

\* A defective pick(), without the test for the empty array
SecureSeededRNG_pickUnguarded(g, array) ==
  Element(SecureSeededRNG_nextInt(g, BZero, BInt(Len(array) - 1)), array)

SecureSeededRNG_pick(g, array) ==
  IF Len(array) = 0 THEN [g |-> g, ret |-> Undefined]
  ELSE Element(SecureSeededRNG_nextInt(g, BZero, BInt(Len(array) - 1)), array)

\* A defective loop of shuffle, which goes on down to position 0 and so draws
\* once more
RECURSIVE SecureSeededRNG_shuffleLoopToZero(_, _)
SecureSeededRNG_shuffleLoopToZero(st, i) ==
  IF i < 0 THEN st
  ELSE SecureSeededRNG_shuffleLoopToZero(
         ShuffleSwap(st, SecureSeededRNG_nextInt(st.g, BZero, BInt(i)), i), i - 1)

RECURSIVE SecureSeededRNG_shuffleLoop(_, _)
SecureSeededRNG_shuffleLoop(st, i) ==
  IF i <= 0 THEN st
  ELSE SecureSeededRNG_shuffleLoop(
         ShuffleSwap(st, SecureSeededRNG_nextInt(st.g, BZero, BInt(i)), i), i - 1)

SecureSeededRNG_shuffle(g, array) ==
  ShuffleResult(SecureSeededRNG_shuffleLoop(
    [g |-> g, elems |-> array, extra |-> << >>], Len(array) - 1))

SecureSeededRNG_weightedPick(g, items) ==
  IF Len(items) = 0 THEN [g |-> g, ret |-> Undefined]
  ELSE WeightedItem(SecureSeededRNG_next(g), items)

SecureSeededRNG_nextBool(g, probability) == SecureSeededRNG_chance(g, probability)

SecureSeededRNG_nextSign(g) ==
  Sign(SecureSeededRNG_chance(g, Frac(BInt(1), << 2 >>)))

\* rand() & 0xff for the word r.ret that rand() returned, as a run of one byte
ByteOf(r) == [g |-> r.g, ret |-> << r.ret % 256 >>]

\* The results of two runs of bytes, one after the other
BytesJoin(left, right) == [g |-> right.g, ret |-> left.ret \o right.ret]

\* The second half of a run of n bytes, after the first half left
RECURSIVE nextBytesLoop(_, _)
nextBytesRest(left, n) ==
  IF left.g.randCnt \in Int THEN BytesJoin(left, nextBytesLoop(left.g, n)) ELSE left

\* The loop of nextBytes: length bytes, each rand() & 0xff (halved, so that
\* the evaluation does not nest once per byte)
nextBytesLoop(g, length) ==
  IF length = 0 THEN [g |-> g, ret |-> << >>]
  ELSE IF length = 1 THEN ByteOf(rand(g))
  ELSE nextBytesRest(nextBytesLoop(g, length \div 2), length - length \div 2)

SecureSeededRNG_nextBytes(g, length) == nextBytesLoop(g, length)

\* chars of nextHex: the sixteen lowercase hex digits
HexChars == << "0", "1", "2", "3", "4", "5", "6", "7",
               "8", "9", "a", "b", "c", "d", "e", "f" >>

\* A defective pair of characters, the low digit first
HexPairLowFirst(byte) ==
  << HexChars[(byte % 16) + 1], HexChars[((byte \div 16) % 16) + 1] >>

\* chars[(byte >> 4) & 0x0f] and chars[byte & 0x0f] of one byte
HexPair(byte) == << HexChars[((byte \div 16) % 16) + 1], HexChars[(byte % 16) + 1] >>

\* The two characters nextHex appends for the word r.ret that rand() returned
HexOf(r) == [g |-> r.g, ret |-> HexPair(r.ret % 256)]

\* The second half of a run of n bytes of nextHex, after the first half left
RECURSIVE nextHexLoop(_, _)
nextHexRest(left, n) ==
  IF left.g.randCnt \in Int THEN BytesJoin(left, nextHexLoop(left.g, n)) ELSE left

\* The loop of nextHex: two characters for each of length bytes
nextHexLoop(g, length) ==
  IF length <= 0 THEN [g |-> g, ret |-> << >>]
  ELSE IF length = 1 THEN HexOf(rand(g))
  ELSE nextHexRest(nextHexLoop(g, length \div 2), length - length \div 2)

SecureSeededRNG_nextHex(g, length) == nextHexLoop(g, length)

\* b.toString(16) for a byte b: its hex digits without a leading zero
ToString16(b) ==
  IF b < 16 THEN << HexChars[b + 1] >>
  ELSE << HexChars[(b \div 16) + 1], HexChars[(b % 16) + 1] >>

\* str.padStart(2, '0')
PadStart2(str) ==
  IF Len(str) >= 2 THEN str ELSE [i \in 1..(2 - Len(str)) |-> "0"] \o str

\* Array.from(bytes).map(b => b.toString(16).padStart(2, '0')).join(''),
\* from byte i on
RECURSIVE HexJoin(_, _)
HexJoin(bytes, i) ==
  IF i > Len(bytes) THEN << >>
  ELSE PadStart2(ToString16(bytes[i])) \o HexJoin(bytes, i + 1)

\* hex.slice(from, to)
Slice(hex, from, to) == SubSeq(hex, from + 1, to)

\* The template of nextUUID: the groups 8-4-4-4-12 of hex, with dashes
UUIDGroups(hex) ==
  Slice(hex, 0, 8) \o << "-" >> \o Slice(hex, 8, 12) \o << "-" >> \o
  Slice(hex, 12, 16) \o << "-" >> \o Slice(hex, 16, 20) \o << "-" >> \o
  Slice(hex, 20, Len(hex))

\* A defective nextUUID, which leaves byte 6 as drawn (no version nibble)
UUIDWithoutVersion(bytes) == [bytes EXCEPT ![9] = (@ % 64) + 128]

\* bytes[6] = (byte6 & 0x0f) | 0x40 and bytes[8] = (byte8 & 0x3f) | 0x80
UUIDVersion(bytes) ==
  [bytes EXCEPT ![7] = (@ % 16) + 64, ![9] = (@ % 64) + 128]

\* The string nextUUID makes of the 16 bytes r.ret it drew
UUIDOf(r) == [g |-> r.g, ret |-> UUIDGroups(HexJoin(UUIDVersion(r.ret), 1))]

SecureSeededRNG_nextUUID(g) == UUIDOf(nextBytesLoop(g, 16))

\* A defective fork(), which draws the seed but constructs the child
\* without it
SecureSeededRNG_forkUnseededChild(r, env) ==
  [g |-> r.g, ret |-> SecureSeededRNG(<< >>, env)]

SecureSeededRNG_forkUnseeded(g, env) ==
  SecureSeededRNG_forkUnseededChild(SecureSeededRNG_nextInt(g, BZero, MaxUint32), env)

\* new SecureSeededRNG(s) for the seed s = r.ret drawn by nextInt
SecureSeededRNG_forkChild(r, env) ==
  [g |-> r.g, ret |-> SecureSeededRNG(<< r.ret >>, env)]

SecureSeededRNG_fork(g, env) ==
  SecureSeededRNG_forkChild(SecureSeededRNG_nextInt(g, BZero, MaxUint32), env)

\* ------------------------------------------------------------------------
\* The state machine: one generator under test and the calls made on it
\* ------------------------------------------------------------------------

\* Number of calls made on a generator in one behaviour
MaxOps == 2

\* Arguments of the calls
IntRanges == { << BInt(1), BInt(10) >>, << BInt(5), BInt(5) >>,
               << BInt(-100), BInt(-50) >> }

FloatRanges == { << BInt(0), BInt(10) >>, << BInt(3), BInt(3) >> }

Half == Frac(BInt(1), << 2 >>)

Probabilities == { FracInt(BInt(0)), Half, FracInt(BInt(1)) }

Arrays == { << >>, << "a" >>, << "a", "b", "c" >> }

WeightedLists ==
  { << >>,
    << [item |-> "x", weight |-> 0], [item |-> "y", weight |-> 3] >>,
    << [item |-> "x", weight |-> 1], [item |-> "y", weight |-> 0],
       [item |-> "z", weight |-> 2] >> }

ByteLengths == { 256 }

HexLengths == { 0, 3 }

\* The environments of the two generators that are constructed
\* independently: what Math.random() and crypto.getRandomValues would give
Env1 == [random |-> Half, crypto |-> "value", value |-> BInt(7)]

Env2 == [random |-> FracInt(BZero), crypto |-> "throws", value |-> BZero]

Classes == { "SeededRNG", "SecureSeededRNG" }

VARIABLES
  cls,      \* the class of the generator under test
  g,        \* the generator: its fields
  ret,      \* the last call made on g: [op, args, val]
  twin,     \* a second generator, constructed independently with the same seed
  twinRet,  \* the last call made on twin
  ops,      \* number of calls made so far
  checkpoint, \* what the caller keeps of getCurrentSeed(): << >> or
              \* << [seed, draws, at] >>, the seed read, the draws made till
              \* then and the generator as it was then
  envs,     \* the environments in which g and twin were constructed
  drawn     \* number of draws made on g since it was last seeded (by its
            \* constructor, setSeed or reset)

vars == << cls, g, ret, twin, twinRet, ops, checkpoint, envs, drawn >>

\* new c(seed) in the environment env
New(c, seed, env) ==
  IF c = "SeededRNG" THEN SeededRNG(seed, env) ELSE SecureSeededRNG(seed, env)

\* Two generators of one class are constructed with the same seed, each in
\* its own environment
Init ==
  \E c \in Classes :
  \E s \in IF c = "SeededRNG" THEN Seeds ELSE SecureSeeds :
    /\ cls = c
    /\ g = New(c, << s >>, Env1)
    /\ twin = New(c, << s >>, Env2)
    /\ ret = [op |-> "new", args |-> << s >>, val |-> Undefined]
    /\ twinRet = [op |-> "new", args |-> << s >>, val |-> Undefined]
    /\ ops = 0
    /\ checkpoint = << >>
    /\ envs = << Env1, Env2 >>
    /\ drawn = 0

\* The generator under test (k = 1) or its twin (k = 2), and its environment
Gen(k) == IF k = 1 THEN g ELSE twin

Env(k) == envs[k]

\* The seeds the caller has read with getCurrentSeed()
CheckpointSeeds == { checkpoint[i].seed : i \in DOMAIN checkpoint }

\* A behaviour is MaxOps calls; a checkpoint read on the way may still be
\* restored with setSeed after them
MayCall(op, args) ==
  \/ ops < MaxOps
  \/ ops = MaxOps /\ op = "setSeed" /\ args[1] \in CheckpointSeeds

\* The call op(args) has given r on g and t on twin
Record(op, args, r, t) ==
  /\ MayCall(op, args)
  /\ g' = r.g
  /\ ret' = [op |-> op, args |-> args, val |-> r.ret]
  /\ twin' = t.g
  /\ twinRet' = [op |-> op, args |-> args, val |-> t.ret]
  /\ ops' = ops + 1
  /\ drawn' = IF op \in { "setSeed", "reset" } THEN 0
              ELSE drawn + (r.g.iterations - g.iterations)
  /\ UNCHANGED << cls, checkpoint, envs >>

\* The same call op(args) is made on g and on twin; both[k] is its result on Gen(k)
Step(op, args, both) == Record(op, args, both[1], both[2])

CallNext ==
  Step("next", << >>,
       [k \in 1..2 |-> IF cls = "SeededRNG" THEN SeededRNG_next(Gen(k))
                       ELSE SecureSeededRNG_next(Gen(k))])

CallNextInt ==
  \E a \in IntRanges :
    Step("nextInt", a,
         [k \in 1..2 |-> IF cls = "SeededRNG" THEN SeededRNG_nextInt(Gen(k), a[1], a[2])
                         ELSE SecureSeededRNG_nextInt(Gen(k), a[1], a[2])])

CallNextFloat ==
  \E a \in FloatRanges :
    Step("nextFloat", a,
         [k \in 1..2 |-> IF cls = "SeededRNG" THEN SeededRNG_nextFloat(Gen(k), a[1], a[2])
                         ELSE SecureSeededRNG_nextFloat(Gen(k), a[1], a[2])])

CallChance ==
  \E p \in Probabilities :
    Step("chance", << p >>,
         [k \in 1..2 |-> IF cls = "SeededRNG" THEN SeededRNG_chance(Gen(k), p)
                         ELSE SecureSeededRNG_chance(Gen(k), p)])

\* nextBool(probability = 0.5): without an argument the probability is 0.5
CallNextBool ==
  \E a \in {<< >>} \cup {<< p >> : p \in Probabilities} :
    Step("nextBool", a,
         [k \in 1..2 |->
            IF cls = "SeededRNG"
            THEN SeededRNG_nextBool(Gen(k), IF a = << >> THEN Half ELSE a[1])
            ELSE SecureSeededRNG_nextBool(Gen(k), IF a = << >> THEN Half ELSE a[1])])

CallNextSign ==
  Step("nextSign", << >>,
       [k \in 1..2 |-> IF cls = "SeededRNG" THEN SeededRNG_nextSign(Gen(k))
                       ELSE SecureSeededRNG_nextSign(Gen(k))])

CallPick ==
  \E a \in Arrays :
    Step("pick", << a >>,
         [k \in 1..2 |-> IF cls = "SeededRNG" THEN SeededRNG_pick(Gen(k), a)
                         ELSE SecureSeededRNG_pick(Gen(k), a)])

CallShuffle ==
  \E a \in Arrays :
    Step("shuffle", << a >>,
         [k \in 1..2 |-> IF cls = "SeededRNG" THEN SeededRNG_shuffle(Gen(k), a)
                         ELSE SecureSeededRNG_shuffle(Gen(k), a)])

CallWeightedPick ==
  \E w \in WeightedLists :
    Step("weightedPick", << w >>,
         [k \in 1..2 |-> IF cls = "SeededRNG" THEN SeededRNG_weightedPick(Gen(k), w)
                         ELSE SecureSeededRNG_weightedPick(Gen(k), w)])

\* getCurrentSeed(): the seed is returned, and the caller keeps it with the
\* number of draws made so far (one checkpoint in a behaviour).  The caller
\* does so at any point on a SeededRNG, whose seed is its whole state, and
\* right after a next() on a SecureSeededRNG.
CallGetCurrentSeed ==
  /\ cls = "SecureSeededRNG" => ret.op = "next"
  /\ checkpoint = << >>
  /\ ops < MaxOps
  /\ checkpoint' = << [seed |-> g.seed, draws |-> g.iterations, at |-> g] >>
  /\ ret' = [op |-> "getCurrentSeed", args |-> << >>, val |-> g.seed]
  /\ twinRet' = [op |-> "getCurrentSeed", args |-> << >>, val |-> twin.seed]
  /\ UNCHANGED << cls, g, twin, ops, envs, drawn >>

CallGetInitialSeed ==
  Step("getInitialSeed", << >>,
       [k \in 1..2 |-> IF cls = "SeededRNG" THEN SeededRNG_getInitialSeed(Gen(k))
                       ELSE SecureSeededRNG_getInitialSeed(Gen(k))])

CallGetStats ==
  Step("getStats", << >>,
       [k \in 1..2 |-> IF cls = "SeededRNG" THEN SeededRNG_getStats(Gen(k))
                       ELSE SecureSeededRNG_getStats(Gen(k))])

CallSetSeed ==
  \E s \in SetSeeds \cup CheckpointSeeds :
    Step("setSeed", << s >>,
         [k \in 1..2 |-> IF cls = "SeededRNG" THEN SeededRNG_setSeed(Gen(k), s)
                         ELSE SecureSeededRNG_setSeed(Gen(k), s)])

CallReset ==
  Step("reset", << >>,
       [k \in 1..2 |-> IF cls = "SeededRNG" THEN SeededRNG_reset(Gen(k))
                       ELSE SecureSeededRNG_reset(Gen(k))])

CallFork ==
  Step("fork", << >>,
       [k \in 1..2 |-> IF cls = "SeededRNG" THEN SeededRNG_fork(Gen(k), Env(k))
                       ELSE SecureSeededRNG_fork(Gen(k), Env(k))])

CallNextBytes ==
  /\ cls = "SecureSeededRNG"
  /\ \E n \in ByteLengths :
       Step("nextBytes", << n >>,
            [k \in 1..2 |-> SecureSeededRNG_nextBytes(Gen(k), n)])

CallNextHex ==
  /\ cls = "SecureSeededRNG"
  /\ \E n \in HexLengths :
       Step("nextHex", << n >>,
            [k \in 1..2 |-> SecureSeededRNG_nextHex(Gen(k), n)])

CallNextUUID ==
  /\ cls = "SecureSeededRNG"
  /\ Step("nextUUID", << >>,
          [k \in 1..2 |-> SecureSeededRNG_nextUUID(Gen(k))])

Next ==
  \/ CallNext
  \/ CallNextInt
  \/ CallNextFloat
  \/ CallChance
  \/ CallNextBool
  \/ CallNextSign
  \/ CallPick
  \/ CallShuffle
  \/ CallWeightedPick
  \/ CallGetCurrentSeed
  \/ CallGetInitialSeed
  \/ CallGetStats
  \/ CallSetSeed
  \/ CallReset
  \/ CallFork
  \/ CallNextBytes
  \/ CallNextHex
  \/ CallNextUUID

Spec == Init /\ [][Next]_vars

\* ------------------------------------------------------------------------
\* Construction without a seed
\* ------------------------------------------------------------------------

\* What Math.random() gives: 0, 1/4, 1/2 and the largest value below 1 that
\* Math.floor(Math.random() * 4294967296) tells from the others
Randoms == { FracInt(BZero), Frac(BInt(1), << 4 >>), Half, Frac(MaxUint32, Two32) }

\* What crypto.getRandomValues writes into the Uint32Array: 0, 7, 2^31 and
\* the largest word
CryptoValues == { BZero, BInt(7), BAdd(MaxInt31, BInt(1)), MaxUint32 }

\* The environments of a construction: without crypto.getRandomValues, with
\* one that throws, with one that fills the array
Envs ==
  { [random |-> r, crypto |-> c, value |-> BZero] :
      r \in Randoms, c \in { "absent", "throws" } }
  \cup { [random |-> r, crypto |-> "value", value |-> v] :
           r \in Randoms, v \in CryptoValues }

\* new SeededRNG() or new SecureSeededRNG() in an environment of Envs, and a
\* second one in Env2
InitUnseeded ==
  \E c \in Classes :
  \E e \in Envs :
    /\ cls = c
    /\ g = New(c, << >>, e)
    /\ twin = New(c, << >>, Env2)
    /\ ret = [op |-> "new", args |-> << >>, val |-> Undefined]
    /\ twinRet = [op |-> "new", args |-> << >>, val |-> Undefined]
    /\ ops = 0
    /\ checkpoint = << >>
    /\ envs = << e, Env2 >>
    /\ drawn = 0

\* The calls that observe a generator after its construction: it is read
\* and drawn from
NextObserve ==
  \/ CallNext
  \/ CallGetInitialSeed
  \/ CallGetStats

SpecUnseeded == InitUnseeded /\ [][NextObserve]_vars

\* ------------------------------------------------------------------------
\* Construction of two generators with different seeds
\* ------------------------------------------------------------------------

\* Seeds of the two generators: for SeededRNG 0, 42, 42 + M, one above M
\* and a negative one; for SecureSeededRNG 0, 42, -1 and the largest word
PairSeeds(c) ==
  IF c = "SeededRNG"
  THEN { BInt(0), BInt(42), BInt(42 + M), BInt(300000), BInt(-6) }
  ELSE { BInt(0), BInt(42), BInt(-1), MaxUint32 }

\* new c(s1) and new c(s2) with s1 # s2
InitPair ==
  \E c \in Classes :
  \E s1 \in PairSeeds(c) :
  \E s2 \in PairSeeds(c) \ { s1 } :
    /\ cls = c
    /\ g = New(c, << s1 >>, Env1)
    /\ twin = New(c, << s2 >>, Env2)
    /\ ret = [op |-> "new", args |-> << s1 >>, val |-> Undefined]
    /\ twinRet = [op |-> "new", args |-> << s2 >>, val |-> Undefined]
    /\ ops = 0
    /\ checkpoint = << >>
    /\ envs = << Env1, Env2 >>
    /\ drawn = 0

SpecPair == InitPair /\ [][NextObserve]_vars

\* ------------------------------------------------------------------------
\* Runs of one call repeated on a SeededRNG
\* ------------------------------------------------------------------------

\* Number of consecutive fork() calls in a run
MaxForks == 1000

\* The call op() has given r on g; nothing is called on twin
RunCall(op, r) ==
  /\ g' = r.g
  /\ ret' = [op |-> op, args |-> << >>, val |-> r.ret]
  /\ drawn' = drawn + (r.g.iterations - g.iterations)
  /\ UNCHANGED << cls, twin, twinRet, ops, checkpoint, envs >>

\* fork() is called again on the parent
RunFork ==
  /\ cls = "SeededRNG"
  /\ g.iterations < MaxForks
  /\ RunCall("fork", SeededRNG_fork(g, Env(1)))

SpecForks == Init /\ [][RunFork]_vars

\* new SeededRNG(0), and a second one that is left alone
InitRun ==
  /\ cls = "SeededRNG"
  /\ g = SeededRNG(<< BZero >>, Env1)
  /\ twin = SeededRNG(<< BZero >>, Env2)
  /\ ret = [op |-> "new", args |-> << BZero >>, val |-> Undefined]
  /\ twinRet = [op |-> "new", args |-> << BZero >>, val |-> Undefined]
  /\ ops = 0
  /\ checkpoint = << >>
  /\ envs = << Env1, Env2 >>
  /\ drawn = 0

\* next() is called again, M times in all
RunNext ==
  /\ cls = "SeededRNG"
  /\ g.iterations < M
  /\ RunCall("next", SeededRNG_next(g))

SpecRun == InitRun /\ [][RunNext]_vars

\* ------------------------------------------------------------------------
\* Properties
\* ------------------------------------------------------------------------

Zero == FracInt(BZero)

One == FracInt(BInt(1))

\* a = b for fractions
FracEq(a, b) == ~FracLess(a, b) /\ ~FracLess(b, a)

\* min <= x <= max for integers
Between(min, x, max) == BLeq(min, x) /\ BLeq(x, max)

\* Number of occurrences of x in the sequence xs
Count(xs, x) == Cardinality({ i \in DOMAIN xs : xs[i] = x })

\* xs and ys hold the same elements, each as often
SameElements(xs, ys) ==
  /\ Len(xs) = Len(ys)
  /\ \A i \in DOMAIN xs : Count(xs, xs[i]) = Count(ys, xs[i])

\* C1. Determinism: two generators of one class constructed independently
\* with the same seed, on which the same calls are made, are in the same
\* state after every call and every call has returned the same value on
\* both (for fork the value is the child generator).
C1_Determinism == g = twin /\ ret = twinRet

\* Two calls have been made on a SecureSeededRNG and its twin, the last a fork
C1_Witness == cls = "SecureSeededRNG" /\ ops = 2 /\ ret.op = "fork"

\* C2. Reset replay: right after reset() the generator is in the state the
\* constructor leaves for its initial seed (seed = initialSeed, iterations
\* = 0, and for SecureSeededRNG the buffer, the cursor and the three
\* accumulators of a fresh seeding), so the draws that follow are the draws
\* that follow construction.
C2_ResetReplay ==
  ret.op = "reset" =>
    /\ g.seed = g.initialSeed
    /\ g.iterations = 0
    /\ g = New(cls, << g.initialSeed >>, Env1)

\* A SecureSeededRNG has been reset after a call that moved its state
C2_Witness ==
  /\ cls = "SecureSeededRNG"
  /\ ops = 2
  /\ ret.op = "reset"

\* C3. Every next() of a SeededRNG returns v with 0 <= v < 1, whatever
\* integer seed the generator was given.
C3_NextInUnitInterval ==
  (cls = "SeededRNG" /\ ret.op = "next") =>
    FracLeq(Zero, ret.val) /\ FracLess(ret.val, One)

\* C4. The seed of a SeededRNG is in [0, M) in every reachable state.
C4_SeedBelowModulus ==
  cls = "SeededRNG" => Between(BZero, g.seed, BInt(M - 1))

\* C5. Every next() of a SecureSeededRNG is an unsigned 32-bit word over
\* 2^32: 0 <= v < 1 and never 1, also for the draw that re-mixes the buffer.
C5_SecureNextInUnitInterval ==
  (cls = "SecureSeededRNG" /\ ret.op = "next") =>
    /\ ret.val.den = Two32
    /\ Between(BZero, ret.val.num, MaxUint32)
    /\ FracLeq(Zero, ret.val) /\ FracLess(ret.val, One)

\* A next() that found the buffer used up (256 words taken by nextBytes)
\* and re-mixed it
C5_Witness ==
  /\ cls = "SecureSeededRNG"
  /\ ret.op = "next"
  /\ g.iterations = RSL + 1
  /\ g.randCnt = RSL - 1

\* C6. nextInt(min, max) returns r with min <= r <= max, for both classes.
C6_NextIntInRange ==
  ret.op = "nextInt" => Between(ret.args[1], ret.val, ret.args[2])

\* C7. nextFloat(min, max) returns v with min <= v < max, and min when
\* min = max, for both classes.
C7_NextFloatInRange ==
  ret.op = "nextFloat" =>
    IF ret.args[1] = ret.args[2] THEN FracEq(ret.val, FracInt(ret.args[1]))
    ELSE /\ FracLeq(FracInt(ret.args[1]), ret.val)
         /\ FracLess(ret.val, FracInt(ret.args[2]))

\* C8. chance(p) and nextBool(p) are false whenever p <= 0 and true
\* whenever p >= 1, for both classes.
C8_ChanceAtTheEnds ==
  (ret.op \in {"chance", "nextBool"} /\ ret.args # << >>) =>
    /\ FracLeq(ret.args[1], Zero) => ret.val = FALSE
    /\ FracLeq(One, ret.args[1]) => ret.val = TRUE

\* C9. shuffle(xs) returns the elements of xs, each as often as in xs, for
\* both classes.
C9_ShuffleIsPermutation ==
  ret.op = "shuffle" => SameElements(ret.val, ret.args[1])

\* C10. pick([]) and weightedPick([]) return undefined and leave the whole
\* state of the generator as it was, for both classes.
C10_EmptyInput ==
  [][(ret'.op \in {"pick", "weightedPick"} /\ Len(ret'.args[1]) = 0) =>
       (ret'.val = Undefined /\ g' = g /\ twin' = twin)]_vars

\* pick([]) has been called on a SecureSeededRNG after another call
C10_Witness ==
  /\ cls = "SecureSeededRNG"
  /\ ops = 2
  /\ ret.op = "pick"
  /\ Len(ret.args[1]) = 0

\* next() and nextInt(min, max) of a generator gen of class c
Draw(c, gen) ==
  IF c = "SeededRNG" THEN SeededRNG_next(gen) ELSE SecureSeededRNG_next(gen)

DrawInt(c, gen, min, max) ==
  IF c = "SeededRNG" THEN SeededRNG_nextInt(gen, min, max)
  ELSE SecureSeededRNG_nextInt(gen, min, max)

\* The elements of the sequence xs
Elements(xs) == { xs[i] : i \in DOMAIN xs }

\* What pick(array) must do with the one draw r of nextInt(0, length - 1):
\* the generator is left as the draw left it, the index drawn is inside
\* the array and the element under it is returned
PickedBy(r, array, gen, val) ==
  /\ gen = r.g
  /\ Between(BZero, r.ret, BInt(Len(array) - 1))
  /\ val = At(array, << >>, r.ret)
  /\ val \in Elements(array)

\* C11. pick on a non-empty sequence consumes exactly one draw and returns
\* sequence[nextInt(0, length - 1)]; the index is within [0, length - 1],
\* so the result is an element of the sequence, for both classes.
C11_PickIsElement ==
  [][(ret'.op = "pick" /\ Len(ret'.args[1]) > 0) =>
       /\ g'.iterations = g.iterations + 1
       /\ PickedBy(DrawInt(cls, g, BZero, BInt(Len(ret'.args[1]) - 1)),
                   ret'.args[1], g', ret'.val)]_vars

\* w_1 + ... + w_k for the weights of items
RECURSIVE PrefixWeight(_, _)
PrefixWeight(items, k) ==
  IF k = 0 THEN 0 ELSE PrefixWeight(items, k - 1) + items[k].weight

\* The positions k of items with r - (w_1 + ... + w_k) <= 0
Covering(items, r) ==
  { k \in DOMAIN items : FracLeq(r, FracInt(BInt(PrefixWeight(items, k)))) }

\* The item the selection rule gives for r: that of the first covering
\* position, and the last item when there is none
Selected(items, r, ks) ==
  IF ks = { } THEN items[Len(items)].item
  ELSE items[CHOOSE k \in ks : \A j \in ks : k <= j].item

\* What weightedPick(items) must do with the one draw r of next()
WeightedBy(r, items, gen, val) ==
  /\ gen = r.g
  /\ val = Selected(items, MulAdd(r.ret, BInt(PrefixWeight(items, Len(items))), BZero),
                    Covering(items, MulAdd(r.ret, BInt(PrefixWeight(items, Len(items))),
                                           BZero)))
  /\ \E k \in DOMAIN items : val = items[k].item

\* C12. weightedPick on a non-empty list with non-negative weights consumes
\* exactly one draw, computes r = next() * (sum of the weights) and returns
\* the first item k in list order with r - (w_1 + ... + w_k) <= 0, the last
\* item when there is none; the result is the item of a list element, for
\* both classes.
C12_WeightedPickRule ==
  [][(ret'.op = "weightedPick" /\ Len(ret'.args[1]) > 0) =>
       /\ g'.iterations = g.iterations + 1
       /\ WeightedBy(Draw(cls, g), ret'.args[1], g', ret'.val)]_vars

\* weightedPick has walked past the first two items of a list of three on a
\* SecureSeededRNG
C12_Witness ==
  /\ cls = "SecureSeededRNG"
  /\ ret.op = "weightedPick"
  /\ Len(ret.args[1]) = 3
  /\ ret.val = "z"

\* C13. For a list of non-negative weights with at least one positive
\* weight, weightedPick never returns an item whose weight is 0, whatever
\* next() returns, for both classes (the items of a list are distinct).
C13_ZeroWeightUnreachable ==
  (ret.op = "weightedPick" /\ \E k \in DOMAIN ret.args[1] : ret.args[1][k].weight > 0) =>
    \A k \in DOMAIN ret.args[1] :
      ret.args[1][k].item = ret.val => ret.args[1][k].weight > 0

\* C14. The generator fork() returns has an initial seed different from the
\* initial seed of its parent, for every parent seed and whatever was
\* called on the parent before, for both classes.
C14_ForkSeedDiffers ==
  ret.op = "fork" => ret.val.initialSeed # g.initialSeed

\* The values of the next n calls of next() on a generator gen of class c
RECURSIVE NextValues(_, _, _)
NextValuesAfter(c, r, n) == << r.ret >> \o NextValues(c, r.g, n - 1)

NextValues(c, gen, n) ==
  IF n = 0 THEN << >> ELSE NextValuesAfter(c, Draw(c, gen), n)

\* C15. The first three next() values of the generator fork() returns are
\* not the three values its parent gives when it goes on drawing after the
\* fork, for every parent seed and state.
C15_ForkSequenceDiffers ==
  ret.op = "fork" => NextValues(cls, ret.val, 3) # NextValues(cls, g, 3)

\* The largest seed fork() of class c asks nextInt for
MaxForkSeed(c) == IF c = "SeededRNG" THEN MaxInt31 ELSE MaxUint32

\* What fork() must do with the one draw r of nextInt(0, max): the parent
\* gen is left as the draw left it, and the child is a fresh generator of
\* class c whose initial seed is the integer drawn, in [0, max]
ForkedBy(c, r, max, gen, child) ==
  /\ gen = r.g
  /\ child = New(c, << r.ret >>, Env1)
  /\ child.initialSeed = r.ret
  /\ child.iterations = 0
  /\ Between(BZero, child.initialSeed, max)

\* C16. fork() advances the parent by exactly one draw (iterations + 1,
\* state as after one nextInt) and returns a new instance of the same
\* class with iterations 0 whose initial seed is the drawn integer, in
\* [0, 2^31 - 1] for SeededRNG and [0, 2^32 - 1] for SecureSeededRNG.
C16_ForkIsOneDraw ==
  [][ret'.op = "fork" =>
       /\ g'.iterations = g.iterations + 1
       /\ ForkedBy(cls, DrawInt(cls, g, BZero, MaxForkSeed(cls)),
                   MaxForkSeed(cls), g', ret'.val)]_vars

\* The generator gen of class c after n calls of next()
RECURSIVE AfterDraws(_, _, _)
AfterDraws(c, gen, n) ==
  IF n = 0 THEN gen ELSE AfterDraws(c, Draw(c, gen).g, n - 1)

\* The checkpoint the caller holds was read after its number of draws of a
\* fresh generator fresh, and setSeed has just been called with it on gen:
\* the next outputs of gen are the draws that follow in fresh
RestoredFrom(fresh, point, gen) ==
  point.seed = AfterDraws("SeededRNG", fresh, point.draws).seed =>
    NextValues("SeededRNG", gen, 3)
      = NextValues("SeededRNG", AfterDraws("SeededRNG", fresh, point.draws), 3)

\* C17. SeededRNG checkpoint and restore: setSeed(c) changes the current
\* seed only (initialSeed and iterations stay), no call changes
\* initialSeed, so reset() returns to the seed of construction; and when c
\* was read with getCurrentSeed() after n draws, then after further draws
\* and setSeed(c) the next outputs are the draws n+1, n+2, n+3 of a fresh
\* generator with the same initial seed.
C17_CheckpointRestore ==
  /\ [][cls = "SeededRNG" =>
          /\ g'.initialSeed = g.initialSeed
          /\ ret'.op = "setSeed" => g' = [g EXCEPT !.seed = ret'.args[1]]
          /\ ret'.op = "reset" => g'.seed = g.initialSeed]_vars
  /\ [](\A i \in DOMAIN checkpoint :
          (cls = "SeededRNG" /\ ret.op = "setSeed" /\ ret.args[1] = checkpoint[i].seed) =>
            RestoredFrom(SeededRNG(<< g.initialSeed >>, Env1), checkpoint[i], g))

\* A seed read from a SeededRNG after one draw has been set again after a
\* further draw
C17_Witness ==
  /\ cls = "SeededRNG"
  /\ ret.op = "setSeed"
  /\ checkpoint # << >>
  /\ ret.args[1] = checkpoint[1].seed
  /\ checkpoint[1].draws = 1
  /\ g.iterations = 2
  /\ checkpoint[1].seed = AfterDraws("SeededRNG", SeededRNG(<< g.initialSeed >>, Env1), 1).seed

\* The buffer, the cursor and the accumulators of the generator gen are
\* those of the generator fresh, and the outputs that follow in gen are
\* those that follow in fresh
ReseededAs(fresh, gen) ==
  /\ << gen.randRsl, gen.randCnt, gen.randA, gen.randB, gen.randC >>
       = << fresh.randRsl, fresh.randCnt, fresh.randA, fresh.randB, fresh.randC >>
  /\ NextValues("SecureSeededRNG", gen, 3) = NextValues("SecureSeededRNG", fresh, 3)

\* C18. After setSeed(s) on a SecureSeededRNG, whatever was called before,
\* the buffer, the cursor and the three accumulators are those of a fresh
\* SecureSeededRNG(s), so the outputs that follow are those of a fresh
\* SecureSeededRNG(s); seed is s and initialSeed is unchanged.
C18_ReseedIsTotal ==
  [][(cls = "SecureSeededRNG" /\ ret'.op = "setSeed") =>
       /\ g'.seed = ret'.args[1]
       /\ g'.initialSeed = g.initialSeed
       /\ ReseededAs(SecureSeededRNG(ret'.args, Env2), g')]_vars

\* setSeed on a SecureSeededRNG all of whose first batch of words has been
\* drawn
C18_Witness ==
  /\ cls = "SecureSeededRNG"
  /\ ret.op = "setSeed"
  /\ g.iterations = RSL
  /\ g.initialSeed # ret.args[1]

\* The words the next n calls of rand() return on the generator gen, and
\* the generator they leave (halved, so that the evaluation does not nest
\* once per word)
RECURSIVE RandRun(_, _)
RandRunRest(left, n) ==
  IF left.g.randCnt \in Int THEN BytesJoin(left, RandRun(left.g, n)) ELSE left

RandRunOne(r) == [g |-> r.g, ret |-> << r.ret >>]

RandRun(gen, n) ==
  IF n = 0 THEN [g |-> gen, ret |-> << >>]
  ELSE IF n = 1 THEN RandRunOne(rand(gen))
  ELSE RandRunRest(RandRun(gen, n \div 2), n - n \div 2)

\* The value of a hex digit: 0..15 for 0-9a-f, and 16 for any other character
HexValue(ch) ==
  IF \E d \in 0..15 : HexChars[d + 1] = ch
  THEN CHOOSE d \in 0..15 : HexChars[d + 1] = ch
  ELSE 16

\* str is the two-digit lowercase hex encoding of the low 8 bits of words
HexEncodes(str, words) ==
  /\ Len(str) = 2 * Len(words)
  /\ \A i \in DOMAIN str : HexValue(str[i]) < 16
  /\ \A k \in DOMAIN words :
       16 * HexValue(str[2 * k - 1]) + HexValue(str[2 * k]) = words[k] % 256

\* bytes are the low 8 bits of words
LowBytes(bytes, words) ==
  /\ Len(bytes) = Len(words)
  /\ \A k \in DOMAIN words : bytes[k] \in 0..255 /\ bytes[k] = words[k] % 256

\* What nextHex(n) must do with the run of n draws of rand(): the generator
\* gen is left as the run left it, str encodes the low bytes of its words,
\* and nextBytes(n) gives those bytes from the same state
HexBy(run, n, gen, str, bytes) ==
  /\ Len(run.ret) = n
  /\ gen = run.g
  /\ Len(str) = 2 * n
  /\ HexEncodes(str, run.ret)
  /\ bytes.g = run.g
  /\ LowBytes(bytes.ret, run.ret)

\* What nextBytes(n) must do with the run of n draws of rand()
BytesBy(run, n, gen, bytes) ==
  /\ Len(run.ret) = n
  /\ gen = run.g
  /\ Len(bytes) = n
  /\ LowBytes(bytes, run.ret)

\* C19. From any state of a SecureSeededRNG, nextHex(n) returns exactly 2n
\* characters of 0-9a-f, the two-digit lowercase hex encoding of n bytes,
\* byte k being the low 8 bits of the k-th word drawn by rand();
\* nextBytes(n) from the same state returns exactly those n bytes, each in
\* 0..255; each consumes exactly n draws and changes the generator as n
\* calls of rand() do.
C19_ByteHelpers ==
  [][/\ ret'.op = "nextHex" =>
          /\ g'.iterations = g.iterations + ret'.args[1]
          /\ \A run \in { RandRun(g, ret'.args[1]) } :
             \A bytes \in { SecureSeededRNG_nextBytes(g, ret'.args[1]) } :
               HexBy(run, ret'.args[1], g', ret'.val, bytes)
     /\ ret'.op = "nextBytes" =>
          /\ g'.iterations = g.iterations + ret'.args[1]
          /\ \A run \in { RandRun(g, ret'.args[1]) } :
               BytesBy(run, ret'.args[1], g', ret'.val)]_vars

\* nextHex(3) has been called on a SecureSeededRNG after another call
C19_Witness ==
  /\ cls = "SecureSeededRNG"
  /\ ops = 2
  /\ ret.op = "nextHex"
  /\ ret.args = << 3 >>
  /\ Len(ret.val) = 6

\* The position in a UUID string of its k-th hex digit (k = 1..32): the
\* groups 8-4-4-4-12 are separated by one dash each
DigitPos(k) ==
  k + (IF k > 8 THEN 1 ELSE 0) + (IF k > 12 THEN 1 ELSE 0)
    + (IF k > 16 THEN 1 ELSE 0) + (IF k > 20 THEN 1 ELSE 0)

\* The byte that the hex digits 2b-1 and 2b of a UUID string encode
UUIDByte(str, b) ==
  16 * HexValue(str[DigitPos(2 * b - 1)]) + HexValue(str[DigitPos(2 * b)])

\* The byte b (1..16) of a version 4 UUID made of the word w: byte 7 has
\* the high nibble 4, byte 9 the top bits 10, the others are the low byte
VersionedByte(b, w) ==
  IF b = 7 THEN 64 + (w % 16)
  ELSE IF b = 9 THEN 128 + (w % 64)
  ELSE w % 256

\* What nextUUID() must do with the run of 16 draws of rand()
UUIDBy(run, gen, str) ==
  /\ Len(run.ret) = 16
  /\ gen = run.g
  /\ Len(str) = 36
  /\ \A p \in { 9, 14, 19, 24 } : str[p] = "-"
  /\ \A k \in 1..32 : HexValue(str[DigitPos(k)]) < 16
  /\ str[15] = "4"
  /\ str[20] \in { "8", "9", "a", "b" }
  /\ \A b \in 1..16 : UUIDByte(str, b) = VersionedByte(b, run.ret[b])

\* C20. nextUUID() of a SecureSeededRNG consumes exactly 16 draws and
\* returns 36 characters, lowercase hex groups 8-4-4-4-12 with dashes
\* between, in which the first character of the third group is 4 and the
\* first character of the fourth group is one of 8, 9, a, b, all other hex
\* digits being the low bytes of the 16 words drawn, in draw order.
C20_UUIDFormat ==
  [][(ret'.op = "nextUUID") =>
       /\ g'.iterations = g.iterations + 16
       /\ \A run \in { RandRun(g, 16) } : UUIDBy(run, g', ret'.val)]_vars

\* nextUUID() has been called on a SecureSeededRNG after another call
C20_Witness ==
  /\ cls = "SecureSeededRNG"
  /\ ops = 2
  /\ ret.op = "nextUUID"
  /\ Len(ret.val) = 36

\* C21. A SecureSeededRNG constructed without a seed is constructed in every
\* environment, and its seed (initial and current, as getInitialSeed and
\* getStats report them after any draws) is the word crypto.getRandomValues
\* produced when there is one, and Math.floor(Math.random() * 4294967296)
\* when crypto.getRandomValues is missing or throws.
FallbackSeed(e) == FloorMul(e.random, BAdd(MaxUint32, BInt(1)))

C21_UnseededSeed ==
  cls = "SecureSeededRNG" =>
    /\ g.randCnt \in 0..RSL
    /\ g.initialSeed = IF envs[1].crypto = "value" THEN envs[1].value
                       ELSE FallbackSeed(envs[1])
    /\ ret.op = "getInitialSeed" => ret.val = g.initialSeed
    /\ ret.op = "getStats" => ret.val.initialSeed = g.initialSeed

\* C22. The iteration counter, in both classes: it is 0 after construction
\* and after reset(); each next, nextInt, nextFloat and chance adds exactly
\* 1 to it, also the draw of a SecureSeededRNG that re-mixes the buffer
\* (seeding and mixing add nothing); no call but reset() makes it smaller;
\* setSeed, getStats, getInitialSeed and getCurrentSeed leave it as it is,
\* and getStats reports it.
OneDrawOps == { "next", "nextInt", "nextFloat", "chance" }

NoDrawOps == { "setSeed", "getStats", "getInitialSeed", "getCurrentSeed" }

C22_IterationCounter ==
  /\ [](ret.op \in { "new", "reset" } => g.iterations = 0)
  /\ [][/\ ret'.op \in OneDrawOps => g'.iterations = g.iterations + 1
        /\ ret'.op \in NoDrawOps => g'.iterations = g.iterations
        /\ ret'.op # "reset" => g'.iterations >= g.iterations
        /\ ret'.op = "getStats" => ret'.val.iterations = g.iterations]_vars

\* getStats() of a SecureSeededRNG reports the 256 draws of a whole batch
C22_Witness ==
  /\ cls = "SecureSeededRNG"
  /\ ret.op = "getStats"
  /\ ret.val.iterations = RSL
  /\ g.randCnt = 0

\* C23. Two generators of one class constructed with different seeds give
\* different sequences: two SeededRNG differ somewhere in their first three
\* next() values, two SecureSeededRNG differ in their first next() value.
C23_SeedsGiveDifferentSequences ==
  (ret.op = "new" /\ twinRet.op = "new" /\ ret.args # twinRet.args) =>
    IF cls = "SeededRNG" THEN NextValues(cls, g, 3) # NextValues(cls, twin, 3)
    ELSE NextValues(cls, g, 1) # NextValues(cls, twin, 1)

\* C24. Two consecutive fork() calls on one SeededRNG, with no other call
\* between them, return children with different initial seeds, whatever the
\* state of the parent.
C24_ConsecutiveForks ==
  [][(cls = "SeededRNG" /\ ret.op = "fork" /\ ret'.op = "fork") =>
       ret'.val.initialSeed # ret.val.initialSeed]_vars

\* The second of two forks on a parent constructed with a negative seed
\* (the only calls of the run are forks, each of which draws once)
C24_Witness ==
  /\ cls = "SeededRNG"
  /\ ret.op = "fork"
  /\ g.iterations = 2
  /\ g.initialSeed = BInt(-6)

\* C25. The cursor of a SecureSeededRNG: it is 256 right after construction,
\* after setSeed and after reset (also in the child fork() returns); it is
\* an integer from 0 to 256 in every state; and right after a call that
\* drew at least once it is from 0 to 255.
C25_CursorInvariant ==
  /\ [](cls = "SecureSeededRNG" =>
          /\ g.randCnt \in 0..RSL
          /\ ret.op \in { "new", "setSeed", "reset" } => g.randCnt = RSL
          /\ ret.op = "fork" => ret.val.randCnt = RSL)
  /\ [][(cls = "SecureSeededRNG" /\ ret'.op # "reset"
           /\ g'.iterations > g.iterations) =>
          g'.randCnt \in 0..(RSL - 1)]_vars

\* nextBytes(256) has taken the whole batch: the cursor is 0
C25_Witness ==
  /\ cls = "SecureSeededRNG"
  /\ ret.op = "nextBytes"
  /\ g.randCnt = 0
  /\ g.iterations = RSL

\* C26. The order in which a SecureSeededRNG takes the words of a batch.
\* With the draws counted from the last seeding (construction, setSeed or
\* reset), draw n returns slot 255 - ((n - 1) mod 256) of the buffer as it
\* is at that draw; a mix round runs in a draw exactly when that draw is
\* number 257, 513, ... (the cursor is 0 when it starts); so the 256 slots
\* of a batch are returned once each, from slot 255 down to slot 0, before
\* the buffer is mixed again.  next() shows the whole word and nextBytes
\* the low byte of each word; after n draws the cursor is the slot of draw n.
SlotOf(n) == (RSL - 1) - ((n - 1) % RSL)

\* The draws among d + 1 .. e in which the claim has a mix round
MixDraws(d, e) == { m \in (d + 1)..e : m > 1 /\ m % RSL = 1 }

\* The word of draw m in a step that starts after d draws with the buffer
\* before and ends with the buffer after
WordOfDraw(before, after, d, m) ==
  IF MixDraws(d, m) = { } THEN before[SlotOf(m) + 1] ELSE after[SlotOf(m) + 1]

BatchOrder(before, after, d, e, r) ==
  /\ (after # before) <=> (MixDraws(d, e) # { })
  /\ (g'.randC # g.randC) <=> (MixDraws(d, e) # { })
  /\ (g.randCnt = 0 /\ e > d) <=> (d + 1 \in MixDraws(d, e))
  /\ e > 0 => g'.randCnt = SlotOf(e)
  /\ r.op = "next" =>
       r.val = Frac(BFromUint32(ToUint32(W(WordOfDraw(before, after, d, e)))),
                    Two32)
  /\ r.op = "nextBytes" =>
       /\ Len(r.val) = e - d
       /\ \A j \in 1..Len(r.val) :
            r.val[j] = WordOfDraw(before, after, d, d + j) % 256

C26_BatchOrder ==
  [][(cls = "SecureSeededRNG" /\ ret'.op \notin { "setSeed", "reset" }) =>
       \A after \in { g'.randRsl } : \A r \in { ret' } :
         BatchOrder(g.randRsl, after, drawn, drawn', r)]_vars

\* nextBytes(256) after three draws: the mix round ran at draw 257, inside
\* the call
C26_Witness ==
  /\ cls = "SecureSeededRNG"
  /\ ret.op = "nextBytes"
  /\ drawn = RSL + 3
  /\ g.randCnt = RSL - 3

\* C27. The derived operations are one algorithm in both classes: what
\* nextInt, nextFloat, chance, nextBool, nextSign, pick, shuffle and
\* weightedPick return, and how many draws they consume, is one function of
\* their arguments and of the next() values they are fed, the same for
\* SeededRNG and SecureSeededRNG.
DerivedOps == { "nextInt", "nextFloat", "chance", "nextBool", "nextSign",
                "pick", "shuffle", "weightedPick" }

\* The number of next() values op(args) consumes
DrawsOf(op, args) ==
  CASE op \in { "pick", "weightedPick" } -> IF Len(args[1]) = 0 THEN 0 ELSE 1
    [] op = "shuffle" -> IF Len(args[1]) = 0 THEN 0 ELSE Len(args[1]) - 1
    [] OTHER -> 1

\* The array shuffle leaves when it is fed the values vs: position i
\* (0-based, from the last down to 1) is swapped with Math.floor(v * (i + 1))
RECURSIVE ShuffledWith(_, _, _)
ShuffledWith(st, vs, i) ==
  IF i <= 0 THEN st.elems
  ELSE ShuffledWith(
         ShuffleSwap(st, [g |-> st.g,
                          ret |-> FloorMul(vs[Len(st.elems) - i], BInt(i + 1))], i),
         vs, i - 1)

\* The item weightedPick returns when it is fed the value v
WeightedWith(items, v) ==
  Selected(items, MulAdd(v, BInt(PrefixWeight(items, Len(items))), BZero),
           Covering(items, MulAdd(v, BInt(PrefixWeight(items, Len(items))), BZero)))

\* What op(args) returns when it is fed the next() values vs
Derived(op, args, vs) ==
  CASE op = "nextInt" ->
         BAdd(FloorMul(vs[1], BAdd(BSub(args[2], args[1]), BInt(1))), args[1])
    [] op = "nextFloat" -> MulAdd(vs[1], BSub(args[2], args[1]), args[1])
    [] op = "chance" -> FracLess(vs[1], args[1])
    [] op = "nextBool" -> FracLess(vs[1], IF args = << >> THEN Half ELSE args[1])
    [] op = "nextSign" -> IF FracLess(vs[1], Half) THEN 1 ELSE -1
    [] op = "pick" ->
         IF Len(args[1]) = 0 THEN Undefined
         ELSE At(args[1], << >>, FloorMul(vs[1], BInt(Len(args[1]))))
    [] op = "shuffle" ->
         ShuffledWith([g |-> 0, elems |-> args[1], extra |-> << >>], vs,
                      Len(args[1]) - 1)
    [] op = "weightedPick" ->
         IF Len(args[1]) = 0 THEN Undefined ELSE WeightedWith(args[1], vs[1])

\* The next n calls of next() on a generator gen of class c: the values
\* they return and the generator they leave
RECURSIVE DrawRun(_, _, _)
DrawRunAfter(r, rest) == [g |-> rest.g, vals |-> << r.ret >> \o rest.vals]

DrawRunFrom(c, r, n) == DrawRunAfter(r, DrawRun(c, r.g, n - 1))

DrawRun(c, gen, n) ==
  IF n = 0 THEN [g |-> gen, vals |-> << >>]
  ELSE DrawRunFrom(c, Draw(c, gen), n)

C27_SameAlgorithm ==
  [][ret'.op \in DerivedOps =>
       \A r \in { ret' } :
         \A run \in { DrawRun(cls, g, DrawsOf(r.op, r.args)) } :
           /\ g' = run.g
           /\ r.val = Derived(r.op, r.args, run.vals)]_vars

\* A SecureSeededRNG has shuffled three elements into another order with
\* its second and third draw
C27_Witness ==
  /\ cls = "SecureSeededRNG"
  /\ ret.op = "shuffle"
  /\ Len(ret.args[1]) = 3
  /\ ret.val # ret.args[1]
  /\ g.iterations = 3

\* C28. The seed expansion of isaacSeed is exact 32-bit wrapping arithmetic:
\* for the seed a SecureSeededRNG has just been seeded with (by its
\* constructor or by setSeed), each of the 256 words of the expansion is
\* ((mix XOR (mix >>> 16)) * 0x9e3779b9) mod 2^32 of the word before it (of
\* the seed, for the first), as a signed 32-bit word.
ExactGolden(x) ==
  ToInt32(WithSign(x < 0, ToUint32(
    << MulBytes(Bytes4(AbsHalves(x)), GoldenBytes, 0, 0)[4] * 256
         + MulBytes(Bytes4(AbsHalves(x)), GoldenBytes, 0, 0)[3],
       MulBytes(Bytes4(AbsHalves(x)), GoldenBytes, 0, 0)[2] * 256
         + MulBytes(Bytes4(AbsHalves(x)), GoldenBytes, 0, 0)[1] >>)))

ExactAfter(mix) == ExactGolden(Xor32(mix, Shr32(mix, 16)))

ExpansionExact(s32, words) ==
  /\ Len(words) = RSL
  /\ \A i \in 1..RSL :
       words[i] = ExactAfter(IF i = 1 THEN s32 ELSE words[i - 1])

C28_ExactExpansion ==
  (cls = "SecureSeededRNG" /\ ret.op \in { "new", "setSeed" }) =>
    ExpansionExact(BToInt32(g.seed), seedArray(BToInt32(g.seed), RSL))

\* C29. The period of the LCG. In the run of M = 233280 next() calls from
\* state 0 every state is in [0, M), the state does not return to the
\* starting value after 1 .. M - 1 draws and does after M draws, and each
\* value returned is the state over M.  The M states of the run are then
\* all different, so they are all of [0, M): from every starting state in
\* [0, M) the state sequence is this one cycle, of period exactly M, and
\* the values returned repeat every M draws.
C29_FullPeriod ==
  /\ Between(BZero, g.seed, BInt(M - 1))
  /\ g.iterations \in 1..(M - 1) => g.seed # g.initialSeed
  /\ g.iterations = M => g.seed = g.initialSeed
  /\ ret.op = "next" => ret.val = Frac(g.seed, MFactors)

\* The M-th draw has brought the state back to the starting value
C29_Witness ==
  /\ ret.op = "next"
  /\ g.iterations = M
  /\ g.seed = g.initialSeed

\* C30. The current seed of a SecureSeededRNG does not mark a position:
\* no call other than setSeed and reset changes it (no draw, no helper, no
\* fork), setSeed(s) makes it s and reset() makes it initialSeed, and
\* getCurrentSeed() and getStats().currentSeed report it.  So when the seed
\* read with getCurrentSeed() in the middle of a sequence is set again, the
\* generator gives the values of a fresh generator with that seed from
\* their beginning, not the values that followed the point where the seed
\* was read.
C30_SeedIsNoPosition ==
  /\ [][cls = "SecureSeededRNG" =>
          /\ ret'.op \notin { "setSeed", "reset" } => g'.seed = g.seed
          /\ ret'.op = "setSeed" => g'.seed = ret'.args[1]
          /\ ret'.op = "reset" => g'.seed = g.initialSeed
          /\ ret'.op = "getCurrentSeed" => ret'.val = g.seed
          /\ ret'.op = "getStats" => ret'.val.currentSeed = g.seed]_vars
  /\ [](\A i \in DOMAIN checkpoint :
          (cls = "SecureSeededRNG" /\ ret.op = "setSeed"
             /\ ret.args[1] = checkpoint[i].seed) =>
            /\ NextValues(cls, g, 3)
                 = NextValues(cls, SecureSeededRNG(<< checkpoint[i].seed >>, Env1), 3)
            /\ NextValues(cls, g, 3) # NextValues(cls, checkpoint[i].at, 3))

\* The seed read from a SecureSeededRNG after its first draw has been set
\* again after a second draw
C30_Witness ==
  /\ cls = "SecureSeededRNG"
  /\ ret.op = "setSeed"
  /\ checkpoint # << >>
  /\ ret.args[1] = checkpoint[1].seed
  /\ checkpoint[1].draws = 1
  /\ g.iterations = 2

====
